---- MODULE Spec2Model ----
(***************************************************************************)
(* Shop-with-me: the share & vote ledger, the follow-request state machine,*)
(* the share modal and the event collector, modelled as client sessions    *)
(* (React component state and the position of each pending async handler)  *)
(* over one relational store (the Supabase tables).  Every await of a      *)
(* handler is a separate step; every store call either is applied or       *)
(* returns an error.                                                       *)
(***************************************************************************)
EXTENDS Integers, Sequences, FiniteSets, Bags, TLC

\* ------------------------------------------------------------------------
\* Universe
\* ------------------------------------------------------------------------
Users == {"u1", "u2"}

\* Client sessions (one mounted app each).  Two sessions are two users, or
\* two devices of the same user.
Sessions == {"s1", "s2"}

SignIns == {[s \in Sessions |-> IF s = "s1" THEN "u1" ELSE "u2"],
            [s \in Sessions |-> "u1"]}

VoteTypes == {"like", "dislike"}

NULL == "null"

MaxVoteCalls == 2

MaxShareCalls == 2

Products == {"p1"}

\* ------------------------------------------------------------------------
\* State
\* ------------------------------------------------------------------------
VARIABLES
  currentUserId,  \* per session: the signed-in user (prop currentUserId)
  storeFaults,    \* whether calls to the store can return an error in this run
  followers,      \* table followers: set of <<follower_id, following_id>>
  shared_items,   \* table shared_items: set of rows [id, user_id, product_id, is_active]
  item_votes,     \* table item_votes: bag of rows [shared_item_id, voter_id, vote_type]
  sharedItems,    \* SharedItemsFeed state, per session: set of item records
  load,           \* loadSharedItems, per session: position and locals
  voteCalls,      \* handleVote invocations, in the order of the clicks
  solo,           \* per item and voter: the vote the voter's own writes give when
                  \* applied to a ledger holding no other voter's rows
  toggled,        \* per item and voter: the vote the toggle rules give when the
                  \* voter's calls are applied one after the other, in click order
  user_profiles,  \* table user_profiles: the user_ids that have a row
  shareCalls,     \* ShareItemModal.handleShare, per session: position and locals
  shareClicks,    \* number of handleShare invocations so far
  deleteCalls,    \* handleDeleteItem invocations, in the order of the clicks
  friend_requests, \* table friend_requests: set of rows [id, requester_id, recipient_id, status]
  friendships,    \* table friendships: set of <<user_id, friend_id>>
  pendingFollows, \* FriendsFeed state, per session: the users whose flag is true
  socialCalls,    \* FriendsFeed handler invocations, in the order of the clicks
  pendingRequests, \* AddFriendModal state, per session: the users whose flag is true
  unfollowed,     \* the pairs {user, target} for which unfollowUser has been called
  follow_requests, \* table follow_requests: set of request rows
  followRequests, \* FriendsFeed state, per session: the requests list and its loads
  discoverUsers,  \* FriendsFeed state, per session: the discover list and its loads
  user_feed_items, \* table user_feed_items: set of rows (see FeedRow)
  collector,      \* which revision of Collector (with its schema) is deployed
  feedRuns,       \* saveUserFeed invocations, in the order they were started
  clock,          \* the time new Date() returns
  lastUpsert,     \* per (user_id, product_id): the row of the last upsert the store applied
  curatedFeed,    \* UserFeed state: the feed last obtained, with who obtained it and how
  sample,         \* FriendsFeed state: the sample product last computed for a profile
  removeCalls,    \* handleRemoveFromFeed invocations, in the order of the clicks
  offered,        \* what the hooks held when saveUserFeed last ran
  rls             \* rows under row level security: [rows, auth, cmd] with the last command

envVars == <<currentUserId, storeFaults>>

voteVars == <<item_votes, sharedItems, load, voteCalls, solo, toggled>>

shareVars == <<user_profiles, shareCalls, shareClicks>>

unshareVars == <<deleteCalls>>

listVars == <<follow_requests, followRequests, discoverUsers>>

socialVars == <<friend_requests, friendships, pendingFollows, socialCalls, pendingRequests,
               unfollowed, listVars>>

policyVars == <<rls>>

ingestVars == <<user_feed_items, collector, feedRuns, clock, lastUpsert, curatedFeed, sample,
                removeCalls, offered, policyVars>>

\* Outcomes of one call to the store: applied (TRUE) or error (FALSE).
Outcomes == IF storeFaults THEN BOOLEAN ELSE {TRUE}

\* ------------------------------------------------------------------------
\* The store: item_votes
\* ------------------------------------------------------------------------
VoteRow(item, voter, t) == [shared_item_id |-> item, voter_id |-> voter, vote_type |-> t]

\* Rows of one voter on one item (a set of distinct rows).
VoterRows(tbl, item, voter) ==
  {r \in BagToSet(tbl) : r.shared_item_id = item /\ r.voter_id = voter}

\* Number of rows (with multiplicity) of one voter on one item.
VoterRowCount(tbl, item, voter) ==
  LET rs == VoterRows(tbl, item, voter)
  IN  IF rs = {} THEN 0
      ELSE CopiesIn(VoteRow(item, voter, "like"), tbl)
           + CopiesIn(VoteRow(item, voter, "dislike"), tbl)

\* select count(*) from item_votes where shared_item_id = item and vote_type = t
RECURSIVE SumCopies(_, _)
SumCopies(tbl, rows) ==
  IF rows = {} THEN 0
  ELSE LET r == CHOOSE x \in rows : TRUE
       IN  CopiesIn(r, tbl) + SumCopies(tbl, rows \ {r})

CountVotes_anyType(tbl, item, t) ==
  SumCopies(tbl, {r \in BagToSet(tbl) : r.shared_item_id = item})

CountVotes(tbl, item, t) ==
  SumCopies(tbl, {r \in BagToSet(tbl) : r.shared_item_id = item /\ r.vote_type = t})

\* select vote_type ... .eq(shared_item_id).eq(voter_id).single():
\* data is null unless exactly one row matches.
SingleVote(tbl, item, voter) ==
  IF VoterRowCount(tbl, item, voter) = 1
  THEN (CHOOSE r \in VoterRows(tbl, item, voter) : TRUE).vote_type
  ELSE NULL

\* delete().eq('shared_item_id', item).eq('voter_id', voter)
DeleteVote(tbl, item, voter) ==
  LET keep == {r \in BagToSet(tbl) : ~(r.shared_item_id = item /\ r.voter_id = voter)}
  IN  [r \in keep |-> tbl[r]]

\* upsert(voteData, {onConflict: 'shared_item_id,voter_id'}): the row that
\* conflicts on the unique key is updated in place, otherwise a row is inserted.
UpsertVote_insertOnly(tbl, item, voter, t) ==
  tbl (+) SetToBag({VoteRow(item, voter, t)})

\* (a conflict target of the item alone: the item's row is replaced, whoever cast it)
UpsertVote_onItemOnly(tbl, item, voter, t) ==
  [r \in {x \in BagToSet(tbl) : x.shared_item_id # item} |-> tbl[r]]
  (+) SetToBag({VoteRow(item, voter, t)})

UpsertVote(tbl, item, voter, t) ==
  IF VoterRows(tbl, item, voter) = {}
  THEN tbl (+) SetToBag({VoteRow(item, voter, t)})
  ELSE DeleteVote(tbl, item, voter)
       (+) [r \in {VoteRow(item, voter, t)} |-> VoterRowCount(tbl, item, voter)]

\* ------------------------------------------------------------------------
\* The store: followers and shared_items, as loadSharedItems reads them
\* ------------------------------------------------------------------------
\* select following_id from followers where follower_id = me
FollowingIds(me) == {f[2] : f \in {g \in followers : g[1] = me}}

\* shared_items .eq('is_active', true) .in('user_id', allowedUserIds)
VisibleItems_anyOwner(tbl, allowedUserIds) ==
  {r \in tbl : r.is_active}

VisibleItems(tbl, allowedUserIds) ==
  {r \in tbl : r.is_active /\ r.user_id \in allowedUserIds}

\* ------------------------------------------------------------------------
\* SharedItemsFeed: loadSharedItems (runs once per mount)
\* ------------------------------------------------------------------------
NoLoad(pc) ==
  [pc |-> pc, allowedUserIds |-> {}, items |-> {}, cur |-> 0,
   likeCount |-> 0, dislikeCount |-> 0, acc |-> {}]

ItemRec(row, lc, dc, uv) ==
  [id |-> row.id, user_id |-> row.user_id,
   like_count |-> lc, dislike_count |-> dc, user_vote |-> uv]

\* The component mounts: sharedItems = [], loadSharedItems starts.
Mount(s) ==
  /\ load[s].pc = "unmounted"
  /\ load' = [load EXCEPT ![s].pc = "following"]
  /\ UNCHANGED <<shareVars, unshareVars, socialVars, ingestVars, currentUserId, storeFaults, followers, shared_items, item_votes, sharedItems, voteCalls, solo, toggled>>

\* First query: the users the viewer follows; on error the load stops.
LoadFollowing(s) ==
  /\ load[s].pc = "following"
  /\ \E ok \in Outcomes :
       load' = [load EXCEPT ![s] =
                  IF ok
                  THEN [@ EXCEPT !.pc = "items",
                                 !.allowedUserIds = {currentUserId[s]} \cup FollowingIds(currentUserId[s])]
                  ELSE NoLoad("done")]
  /\ UNCHANGED <<shareVars, unshareVars, socialVars, ingestVars, currentUserId, storeFaults, followers, shared_items, item_votes, sharedItems, voteCalls, solo, toggled>>

\* Second query: the active shared items of the allowed users.
LoadItems(s) ==
  /\ load[s].pc = "items"
  /\ \E ok \in Outcomes :
       LET items == VisibleItems(shared_items, load[s].allowedUserIds)
       IN  IF ok /\ items # {}
           THEN /\ load' = [load EXCEPT ![s].pc = "likeCount", ![s].items = items]
                /\ UNCHANGED sharedItems
           ELSE /\ load' = [load EXCEPT ![s] = NoLoad("done")]
                /\ sharedItems' = IF ok THEN [sharedItems EXCEPT ![s] = {}] ELSE sharedItems
  /\ UNCHANGED <<shareVars, unshareVars, socialVars, ingestVars, currentUserId, storeFaults, followers, shared_items, item_votes, voteCalls, solo, toggled>>

\* Per item, three queries one after the other; a failed count query gives
\* count null, used as 0 (likeCount || 0).
LoadLikeCount(s) ==
  /\ load[s].pc = "likeCount"
  /\ \E row \in load[s].items, ok \in Outcomes :
       load' = [load EXCEPT ![s].pc = "dislikeCount",
                            ![s].cur = row.id,
                            ![s].likeCount =
                               IF ok THEN CountVotes(item_votes, row.id, "like") ELSE 0]
  /\ UNCHANGED <<shareVars, unshareVars, socialVars, ingestVars, currentUserId, storeFaults, followers, shared_items, item_votes, sharedItems, voteCalls, solo, toggled>>

LoadDislikeCount(s) ==
  /\ load[s].pc = "dislikeCount"
  /\ \E ok \in Outcomes :
       load' = [load EXCEPT ![s].pc = "userVote",
                            ![s].dislikeCount =
                               IF ok THEN CountVotes(item_votes, load[s].cur, "dislike") ELSE 0]
  /\ UNCHANGED <<shareVars, unshareVars, socialVars, ingestVars, currentUserId, storeFaults, followers, shared_items, item_votes, sharedItems, voteCalls, solo, toggled>>

\* The viewer's own vote (userVote?.vote_type || null); after the last item
\* setSharedItems(itemsWithVotes).
LoadUserVote(s) ==
  /\ load[s].pc = "userVote"
  /\ \E ok \in Outcomes :
       LET row  == CHOOSE r \in load[s].items : r.id = load[s].cur
           uv   == IF ok THEN SingleVote(item_votes, row.id, currentUserId[s]) ELSE NULL
           acc  == load[s].acc \cup {ItemRec(row, load[s].likeCount, load[s].dislikeCount, uv)}
           rest == load[s].items \ {row}
       IN  IF rest = {}
           THEN /\ sharedItems' = [sharedItems EXCEPT ![s] = acc]
                /\ load' = [load EXCEPT ![s] = NoLoad("done")]
           ELSE /\ load' = [load EXCEPT ![s] = [@ EXCEPT !.pc = "likeCount", !.items = rest,
                                                        !.cur = 0, !.likeCount = 0,
                                                        !.dislikeCount = 0, !.acc = acc]]
                /\ UNCHANGED sharedItems
  /\ UNCHANGED <<shareVars, unshareVars, socialVars, ingestVars, currentUserId, storeFaults, followers, shared_items, item_votes, voteCalls, solo, toggled>>

\* ------------------------------------------------------------------------
\* SharedItemsFeed: handleVote
\* ------------------------------------------------------------------------
\* The optimistic update of one item record.
OptimisticVote(i, voteType) ==
  IF i.user_vote = voteType
  THEN [i EXCEPT !.like_count = IF voteType = "like" THEN @ - 1 ELSE @,
                 !.dislike_count = IF voteType = "like" THEN @ ELSE @ - 1,
                 !.user_vote = NULL]
  ELSE [i EXCEPT !.like_count = (IF i.user_vote = "like" THEN @ - 1 ELSE @)
                                + (IF voteType = "like" THEN 1 ELSE 0),
                 !.dislike_count = (IF i.user_vote = "dislike" THEN @ - 1 ELSE @)
                                + (IF voteType = "like" THEN 0 ELSE 1),
                 !.user_vote = voteType]

\* item.user_vote === voteType ? 'DELETE' : 'UPSERT', decided from the item
\* of the rendered state.
VoteOperation(user_vote, voteType) ==
  IF user_vote = voteType THEN "DELETE" ELSE "UPSERT"

InFlight(c) == c.pc # "done"

\* The call is between its write and the end of its re-read.
Rereading(c) == c.pc \in {"likeCount", "dislikeCount", "userVote"}

\* A finished call keeps no locals.
Finished(c) == [c EXCEPT !.pc = "done", !.voteType = NULL, !.user_vote = NULL,
                         !.like_count = 0, !.dislike_count = 0,
                         !.likeCount = 0, !.dislikeCount = 0, !.clean = TRUE]

\* A call whose write returned an error: what it was called with is kept for
\* the properties of a retry.
Failed(c) == [Finished(c) EXCEPT !.voteType = c.voteType, !.user_vote = c.user_vote,
                                 !.failed = TRUE]

SameBallot(c, s, itemId) ==
  /\ currentUserId[c.session] = currentUserId[s]
  /\ c.item = itemId

\* A click on like/dislike of a displayed item: optimistic update, then the
\* store write is issued.
VoteClick(s, itemId, voteType) ==
  /\ Len(voteCalls) < MaxVoteCalls
  /\ load[s].pc = "done"
  /\ \E item \in sharedItems[s] :
       /\ item.id = itemId
       /\ sharedItems' = [sharedItems EXCEPT ![s] =
            {IF i.id = itemId THEN OptimisticVote(i, voteType) ELSE i : i \in @}]
       /\ LET busy == \E k \in 1..Len(voteCalls) :
                        InFlight(voteCalls[k]) /\ SameBallot(voteCalls[k], s, itemId)
              marked == [k \in 1..Len(voteCalls) |->
                           IF InFlight(voteCalls[k]) /\ SameBallot(voteCalls[k], s, itemId)
                           THEN [voteCalls[k] EXCEPT !.overlapped = TRUE]
                           ELSE voteCalls[k]]
          IN  voteCalls' = Append(marked,
                [session |-> s, item |-> itemId, voteType |-> voteType,
                 user_vote |-> item.user_vote,
                 like_count |-> item.like_count, dislike_count |-> item.dislike_count,
                 pc |-> "write", likeCount |-> 0, dislikeCount |-> 0,
                 overlapped |-> busy, failed |-> FALSE, clean |-> TRUE])
  /\ toggled' = [toggled EXCEPT ![itemId][currentUserId[s]] =
                              IF @ = voteType THEN NULL ELSE voteType]
  /\ UNCHANGED <<shareVars, unshareVars, socialVars, ingestVars, currentUserId, storeFaults, followers, shared_items, item_votes, load, solo>>

\* The write the store applies for one call.
ApplyVote(tbl, c) ==
  IF VoteOperation(c.user_vote, c.voteType) = "DELETE"
  THEN DeleteVote(tbl, c.item, currentUserId[c.session])
  ELSE UpsertVote(tbl, c.item, currentUserId[c.session], c.voteType)

\* The store applies the delete or the upsert (the upsert needs the shared
\* item to exist: item_votes.shared_item_id references shared_items).
VoteWrite(k) ==
  /\ k \in 1..Len(voteCalls)
  /\ voteCalls[k].pc = "write"
  /\ VoteOperation(voteCalls[k].user_vote, voteCalls[k].voteType) = "UPSERT"
       => \E r \in shared_items : r.id = voteCalls[k].item
  /\ item_votes' = ApplyVote(item_votes, voteCalls[k])
  /\ LET c == voteCalls[k]
     IN  solo' = [solo EXCEPT ![c.item][currentUserId[c.session]] =
                    IF VoteOperation(c.user_vote, c.voteType) = "DELETE"
                    THEN NULL ELSE c.voteType]
  /\ voteCalls' = [j \in 1..Len(voteCalls) |->
                     IF j = k THEN [voteCalls[j] EXCEPT !.pc = "likeCount"]
                     ELSE IF Rereading(voteCalls[j]) /\ voteCalls[j].item = voteCalls[k].item
                          THEN [voteCalls[j] EXCEPT !.clean = FALSE]
                          ELSE voteCalls[j]]
  /\ UNCHANGED <<shareVars, unshareVars, socialVars, ingestVars, currentUserId, storeFaults, followers, shared_items, sharedItems, load, toggled>>

\* The write returns an error: it is thrown and caught; the optimistic update
\* is not reverted and no re-read is made.
VoteWriteError(k) ==
  /\ k \in 1..Len(voteCalls)
  /\ voteCalls[k].pc = "write"
  /\ storeFaults
  /\ voteCalls' = [voteCalls EXCEPT ![k] = Failed(@)]
  /\ UNCHANGED <<shareVars, unshareVars, socialVars, ingestVars, currentUserId, storeFaults, followers, shared_items, item_votes, sharedItems, load, solo, toggled>>

\* The re-read after a successful write: three queries, errors ignored.
RefreshLikeCount(k) ==
  /\ k \in 1..Len(voteCalls)
  /\ voteCalls[k].pc = "likeCount"
  /\ \E ok \in Outcomes :
       voteCalls' = [voteCalls EXCEPT ![k].pc = "dislikeCount",
                       ![k].clean = @ /\ ok,
                       ![k].likeCount =
                          IF ok THEN CountVotes(item_votes, voteCalls[k].item, "like") ELSE 0]
  /\ UNCHANGED <<shareVars, unshareVars, socialVars, ingestVars, currentUserId, storeFaults, followers, shared_items, item_votes, sharedItems, load, solo, toggled>>

RefreshDislikeCount(k) ==
  /\ k \in 1..Len(voteCalls)
  /\ voteCalls[k].pc = "dislikeCount"
  /\ \E ok \in Outcomes :
       voteCalls' = [voteCalls EXCEPT ![k].pc = "userVote",
                       ![k].clean = @ /\ ok,
                       ![k].dislikeCount =
                          IF ok THEN CountVotes(item_votes, voteCalls[k].item, "dislike") ELSE 0]
  /\ UNCHANGED <<shareVars, unshareVars, socialVars, ingestVars, currentUserId, storeFaults, followers, shared_items, item_votes, sharedItems, load, solo, toggled>>

\* The third query and setSharedItems with the fresh data.
RefreshUserVote(k) ==
  /\ k \in 1..Len(voteCalls)
  /\ voteCalls[k].pc = "userVote"
  /\ \E ok \in Outcomes :
       LET c  == voteCalls[k]
           uv == IF ok THEN SingleVote(item_votes, c.item, currentUserId[c.session]) ELSE NULL
       IN  /\ sharedItems' = [sharedItems EXCEPT ![c.session] =
                {IF i.id = c.item
                 THEN [i EXCEPT !.like_count = c.likeCount,
                                !.dislike_count = c.dislikeCount,
                                !.user_vote = uv]
                 ELSE i : i \in @}]
           /\ voteCalls' = [voteCalls EXCEPT ![k] =
                               [Finished(@) EXCEPT !.clean = c.clean /\ ok]]
  /\ UNCHANGED <<shareVars, unshareVars, socialVars, ingestVars, currentUserId, storeFaults, followers, shared_items, item_votes, load, solo, toggled>>

\* ------------------------------------------------------------------------
\* SharedItemsFeed: handleDeleteItem
\* ------------------------------------------------------------------------
MaxDeleteCalls == 2

\* if (item.user_id !== currentUserId) return
MayDelete_anyone(item, me) == TRUE

MayDelete(item, me) == item.user_id = me

\* delete from shared_items where id = itemId and user_id = userId
DeleteSharedItem(tbl, itemId, userId) ==
  {r \in tbl : ~(r.id = itemId /\ r.user_id = userId)}

\* item_votes.shared_item_id references shared_items(id) ON DELETE CASCADE:
\* the vote rows whose shared item is still stored.
CascadeVotes(votes, items) ==
  LET kept == {r \in BagToSet(votes) : \E i \in items : i.id = r.shared_item_id}
  IN  [r \in kept |-> CopiesIn(r, votes)]

\* A click on delete of a shown item.  For an item of another user the
\* handler returns; else the item is removed from the list at once and the
\* delete is sent.
DeleteClick(s, itemId) ==
  /\ Len(deleteCalls) < MaxDeleteCalls
  /\ \E item \in sharedItems[s] :
       /\ item.id = itemId
       /\ IF MayDelete(item, currentUserId[s])
          THEN /\ sharedItems' = [sharedItems EXCEPT ![s] = {i \in @ : i.id # itemId}]
               /\ deleteCalls' = Append(deleteCalls,
                                        [session |-> s, item |-> item, pc |-> "delete"])
          ELSE /\ UNCHANGED sharedItems
               /\ deleteCalls' = Append(deleteCalls,
                                        [session |-> s, item |-> item, pc |-> "done"])
  /\ UNCHANGED <<envVars, shareVars, socialVars, ingestVars, followers, shared_items,
                 item_votes, load, voteCalls, solo, toggled>>

\* The delete resolves: applied by the store, with the cascade, or an error,
\* after which the item is put back in the list.
DeleteApply(k) ==
  /\ k \in 1..Len(deleteCalls)
  /\ deleteCalls[k].pc = "delete"
  /\ LET c == deleteCalls[k]
     IN  \E ok \in Outcomes :
           IF ok
           THEN /\ shared_items' = DeleteSharedItem(shared_items, c.item.id,
                                                    currentUserId[c.session])
                /\ item_votes' = CascadeVotes(item_votes, shared_items')
                /\ UNCHANGED sharedItems
           ELSE /\ sharedItems' = [sharedItems EXCEPT ![c.session] = @ \cup {c.item}]
                /\ UNCHANGED <<shared_items, item_votes>>
  /\ deleteCalls' = [deleteCalls EXCEPT ![k].pc = "done"]
  /\ UNCHANGED <<envVars, shareVars, socialVars, ingestVars, followers, load, voteCalls,
                 solo, toggled>>

\* ------------------------------------------------------------------------
\* ShareItemModal: handleShare
\* ------------------------------------------------------------------------
NoShare == [pc |-> "idle", product |-> NULL, seq |-> 0]

\* select id from shared_items where user_id, product_id, is_active = true
ExistingShares(tbl, userId, product) ==
  {r \in tbl : r.user_id = userId /\ r.product_id = product /\ r.is_active}

\* The Share button (disabled while isSharing): the handler starts with the
\* upsert of the user's profile.
ShareClick(s, product) ==
  /\ shareCalls[s].pc = "idle"
  /\ shareClicks < MaxShareCalls
  /\ shareClicks' = shareClicks + 1
  /\ shareCalls' = [shareCalls EXCEPT ![s] =
                      [pc |-> "profile", product |-> product, seq |-> shareClicks + 1]]
  /\ UNCHANGED <<envVars, voteVars, unshareVars, socialVars, ingestVars, followers, shared_items,
                 user_profiles>>

\* user_profiles upsert on user_id; a failure is only logged.
ShareProfile(s) ==
  /\ shareCalls[s].pc = "profile"
  /\ \E ok \in Outcomes :
       user_profiles' = IF ok THEN user_profiles \cup {currentUserId[s]} ELSE user_profiles
  /\ shareCalls' = [shareCalls EXCEPT ![s].pc = "check"]
  /\ UNCHANGED <<envVars, voteVars, unshareVars, socialVars, ingestVars, followers, shared_items,
                 shareClicks>>

\* "Check if user already shared this product": an existing active share
\* ends the call; an error of the check is logged and the call goes on.
ShareCheck(s) ==
  /\ shareCalls[s].pc = "check"
  /\ \E ok \in Outcomes :
       LET existingShares ==
             IF ok THEN ExistingShares(shared_items, currentUserId[s], shareCalls[s].product)
             ELSE {}
       IN  shareCalls' = [shareCalls EXCEPT ![s] =
                            IF existingShares # {} THEN NoShare ELSE [@ EXCEPT !.pc = "insert"]]
  /\ UNCHANGED <<envVars, voteVars, unshareVars, socialVars, ingestVars, followers, shared_items,
                 user_profiles, shareClicks>>

\* insert into shared_items (user_id references user_profiles); the new row
\* gets a fresh id.
ShareInsert(s) ==
  /\ shareCalls[s].pc = "insert"
  /\ \E ok \in Outcomes :
       shared_items' =
         IF ok /\ currentUserId[s] \in user_profiles
         THEN shared_items \cup {[id |-> shareCalls[s].seq, user_id |-> currentUserId[s],
                                  product_id |-> shareCalls[s].product, is_active |-> TRUE]}
         ELSE shared_items
  /\ shareCalls' = [shareCalls EXCEPT ![s] = NoShare]
  /\ UNCHANGED <<envVars, voteVars, unshareVars, socialVars, ingestVars, followers, user_profiles,
                 shareClicks>>

\* ------------------------------------------------------------------------
\* FriendsFeed: follow requests and friendships
\* ------------------------------------------------------------------------
MaxSocialCalls == 3

RequestIds == 1..MaxSocialCalls

RequestRow(id, requester, recipient, status) ==
  [id |-> id, requester_id |-> requester, recipient_id |-> recipient, status |-> status]

\* Rows of friend_requests for one (requester_id, recipient_id).
RequestsBetween(tbl, requester, recipient) ==
  {r \in tbl : r.requester_id = requester /\ r.recipient_id = recipient}

\* insert into friend_requests: UNIQUE(requester_id, recipient_id), both
\* users reference user_profiles.
CanInsertRequest(tbl, requester, recipient) ==
  /\ RequestsBetween(tbl, requester, recipient) = {}
  /\ requester \in user_profiles
  /\ recipient \in user_profiles

\* update friend_requests set status = ... where id = requestId.
UpdateStatus(tbl, requestId, status) ==
  {IF r.id = requestId THEN [r EXCEPT !.status = status] ELSE r : r \in tbl}

\* insert into friendships: UNIQUE(user_id, friend_id), both users reference
\* user_profiles.
CanInsertFriendship(tbl, userId, friendId) ==
  /\ <<userId, friendId>> \notin tbl
  /\ userId \in user_profiles
  /\ friendId \in user_profiles

\* A handler invocation that has returned.
SocialDone ==
  [session |-> "s1", kind |-> "done", request |-> 0, user |-> NULL, pc |-> "done",
   resolved |-> FALSE, error |-> FALSE, following |-> FALSE]

SocialCall(s, kind, requestId, userId, pc) ==
  [session |-> s, kind |-> kind, request |-> requestId, user |-> userId, pc |-> pc,
   resolved |-> FALSE, error |-> FALSE, following |-> FALSE]

AtSocial(k, kind, pc) ==
  /\ k \in DOMAIN socialCalls
  /\ socialCalls[k].kind = kind
  /\ socialCalls[k].pc = pc

\* sendFollowRequest(userIdToFollow), up to its await: the button is disabled
\* while pendingFollows[userIdToFollow] is true; the flag is set before the
\* insert is sent.  The call record notes whether the user followed the
\* target when the call was issued; the handler does not look.
SendFollowRequest(s, userIdToFollow) ==
  /\ Len(socialCalls) < MaxSocialCalls
  /\ userIdToFollow # currentUserId[s]
  /\ userIdToFollow \notin pendingFollows[s]
  /\ pendingFollows' = [pendingFollows EXCEPT ![s] = @ \cup {userIdToFollow}]
  /\ socialCalls' = Append(socialCalls,
                           [SocialCall(s, "send", Len(socialCalls) + 1, userIdToFollow, "insert")
                              EXCEPT !.following =
                                       <<currentUserId[s], userIdToFollow>> \in friendships])
  /\ UNCHANGED <<envVars, voteVars, unshareVars, shareVars, ingestVars, listVars, followers, shared_items,
                 friend_requests, friendships,
                 pendingRequests, unfollowed>>

\* The insert resolves.  Any error, the unique violation included, takes the
\* same branch: the flag is set back to false.
SendFollowRequestInsert(k) ==
  /\ AtSocial(k, "send", "insert")
  /\ LET s == socialCalls[k].session
         me == currentUserId[s]
         userIdToFollow == socialCalls[k].user
     IN  \E ok \in Outcomes :
           LET applied == ok /\ CanInsertRequest(friend_requests, me, userIdToFollow)
           IN  /\ friend_requests' =
                    IF applied
                    THEN friend_requests \cup {RequestRow(k, me, userIdToFollow, "pending")}
                    ELSE friend_requests
               /\ pendingFollows' =
                    IF applied THEN pendingFollows
                    ELSE [pendingFollows EXCEPT ![s] = @ \ {userIdToFollow}]
  /\ socialCalls' = [socialCalls EXCEPT ![k] = SocialDone]
  /\ UNCHANGED <<envVars, voteVars, unshareVars, shareVars, ingestVars, listVars, followers, shared_items,
                 friendships,
                 pendingRequests, unfollowed>>

\* acceptFollowRequest(requestId, requesterId), up to its first await.  The
\* arguments are those of a request addressed to the signed-in user, as an
\* entry of a requests list read earlier gives them; the handler is given no
\* status and reads none.
AcceptFollowRequest(s, requestId) ==
  /\ Len(socialCalls) < MaxSocialCalls
  /\ \E r \in friend_requests :
       /\ r.id = requestId
       /\ r.recipient_id = currentUserId[s]
       /\ socialCalls' = Append(socialCalls,
                                SocialCall(s, "accept", requestId, r.requester_id, "update"))
  /\ UNCHANGED <<envVars, voteVars, unshareVars, shareVars, ingestVars, listVars, followers, shared_items,
                 friend_requests, friendships, pendingFollows,
                 pendingRequests, unfollowed>>

\* update friend_requests set status = 'accepted' where id = requestId;
\* on error the handler returns.
AcceptUpdate(k) ==
  /\ AtSocial(k, "accept", "update")
  /\ \E ok \in Outcomes :
       /\ friend_requests' =
            IF ok THEN UpdateStatus(friend_requests, socialCalls[k].request, "accepted")
            ELSE friend_requests
       /\ socialCalls' =
            [socialCalls EXCEPT ![k] =
               IF ok
               THEN [@ EXCEPT !.pc = "edge1",
                              !.resolved = \E r \in friend_requests :
                                              r.id = socialCalls[k].request
                                              /\ r.status # "pending"]
               ELSE SocialDone]
  /\ UNCHANGED <<envVars, voteVars, unshareVars, shareVars, ingestVars, listVars, followers, shared_items,
                 friendships, pendingFollows,
                 pendingRequests, unfollowed>>

\* insert into friendships (user_id = requesterId, friend_id = currentUserId);
\* followError1 is looked at only after the second insert, and then only to
\* skip the re-read of the lists.
AcceptEdge1(k) ==
  /\ AtSocial(k, "accept", "edge1")
  /\ LET me == currentUserId[socialCalls[k].session]
         requesterId == socialCalls[k].user
     IN  \E ok \in Outcomes :
           LET applied == ok /\ CanInsertFriendship(friendships, requesterId, me)
           IN  /\ friendships' = IF applied THEN friendships \cup {<<requesterId, me>>}
                                 ELSE friendships
               /\ socialCalls' = [socialCalls EXCEPT ![k].pc = "edge2"]
  /\ UNCHANGED <<envVars, voteVars, unshareVars, shareVars, ingestVars, listVars, followers, shared_items,
                 friend_requests, pendingFollows,
                 pendingRequests, unfollowed>>

\* insert into friendships (user_id = currentUserId, friend_id = requesterId);
\* then the handler returns, after an error without any further write.  (The
\* lists it re-reads after a success are display state only.)
AcceptEdge2(k) ==
  /\ AtSocial(k, "accept", "edge2")
  /\ LET me == currentUserId[socialCalls[k].session]
         requesterId == socialCalls[k].user
     IN  \E ok \in Outcomes :
           friendships' = IF ok /\ CanInsertFriendship(friendships, me, requesterId)
                          THEN friendships \cup {<<me, requesterId>>}
                          ELSE friendships
  /\ socialCalls' = [socialCalls EXCEPT ![k] = SocialDone]
  /\ UNCHANGED <<envVars, voteVars, unshareVars, shareVars, ingestVars, listVars, followers, shared_items,
                 friend_requests, pendingFollows,
                 pendingRequests, unfollowed>>

\* declineFollowRequest(requestId), up to its await.
DeclineFollowRequest(s, requestId) ==
  /\ Len(socialCalls) < MaxSocialCalls
  /\ \E r \in friend_requests :
       /\ r.id = requestId
       /\ r.recipient_id = currentUserId[s]
       /\ socialCalls' = Append(socialCalls,
                                SocialCall(s, "decline", requestId, r.requester_id, "update"))
  /\ UNCHANGED <<envVars, voteVars, unshareVars, shareVars, ingestVars, listVars, followers, shared_items,
                 friend_requests, friendships, pendingFollows,
                 pendingRequests, unfollowed>>

\* update friend_requests set status = 'declined' where id = requestId.
DeclineUpdate(k) ==
  /\ AtSocial(k, "decline", "update")
  /\ \E ok \in Outcomes :
       friend_requests' =
         IF ok THEN UpdateStatus(friend_requests, socialCalls[k].request, "declined")
         ELSE friend_requests
  /\ socialCalls' = [socialCalls EXCEPT ![k] = SocialDone]
  /\ UNCHANGED <<envVars, voteVars, unshareVars, shareVars, ingestVars, listVars, followers, shared_items,
                 friendships, pendingFollows,
                 pendingRequests, unfollowed>>

\* followUser(userIdToFollow) of AddFriendModal, up to its first await: the
\* button is disabled while pendingRequests[userIdToFollow] is true.
FollowUser(s, userIdToFollow) ==
  /\ Len(socialCalls) < MaxSocialCalls
  /\ userIdToFollow # currentUserId[s]
  /\ userIdToFollow \notin pendingRequests[s]
  /\ pendingRequests' = [pendingRequests EXCEPT ![s] = @ \cup {userIdToFollow}]
  /\ socialCalls' = Append(socialCalls, SocialCall(s, "follow", 0, userIdToFollow, "edge1"))
  /\ UNCHANGED <<envVars, voteVars, unshareVars, shareVars, ingestVars, listVars, followers, shared_items,
                 friend_requests, friendships, pendingFollows, unfollowed>>

\* insert into friendships (user_id = currentUserId, friend_id = userIdToFollow)
FollowEdge1(k) ==
  /\ AtSocial(k, "follow", "edge1")
  /\ LET me == currentUserId[socialCalls[k].session]
         userIdToFollow == socialCalls[k].user
     IN  \E ok \in Outcomes :
           LET applied == ok /\ CanInsertFriendship(friendships, me, userIdToFollow)
           IN  /\ friendships' = IF applied THEN friendships \cup {<<me, userIdToFollow>>}
                                 ELSE friendships
               /\ socialCalls' = [socialCalls EXCEPT ![k] =
                                    [@ EXCEPT !.pc = "edge2", !.error = ~applied]]
  /\ UNCHANGED <<envVars, voteVars, unshareVars, shareVars, ingestVars, listVars, followers, shared_items,
                 friend_requests, pendingFollows, pendingRequests, unfollowed>>

\* insert into friendships (user_id = userIdToFollow, friend_id = currentUserId);
\* if (error1 || error2) the flag is set back to false.  Nothing is undone.
FollowEdge2(k) ==
  /\ AtSocial(k, "follow", "edge2")
  /\ LET s == socialCalls[k].session
         me == currentUserId[s]
         userIdToFollow == socialCalls[k].user
     IN  \E ok \in Outcomes :
           LET applied == ok /\ CanInsertFriendship(friendships, userIdToFollow, me)
           IN  /\ friendships' = IF applied THEN friendships \cup {<<userIdToFollow, me>>}
                                 ELSE friendships
               /\ pendingRequests' =
                    IF socialCalls[k].error \/ ~applied
                    THEN [pendingRequests EXCEPT ![s] = @ \ {userIdToFollow}]
                    ELSE pendingRequests
  /\ socialCalls' = [socialCalls EXCEPT ![k] = SocialDone]
  /\ UNCHANGED <<envVars, voteVars, unshareVars, shareVars, ingestVars, listVars, followers, shared_items,
                 friend_requests, pendingFollows, unfollowed>>

\* unfollowUser(userIdToUnfollow), up to its first await.
UnfollowUser(s, userIdToUnfollow) ==
  /\ Len(socialCalls) < MaxSocialCalls
  /\ userIdToUnfollow # currentUserId[s]
  /\ socialCalls' = Append(socialCalls,
                           SocialCall(s, "unfollow", 0, userIdToUnfollow, "delete1"))
  /\ unfollowed' = unfollowed \cup {{currentUserId[s], userIdToUnfollow}}
  /\ UNCHANGED <<envVars, voteVars, unshareVars, shareVars, ingestVars, listVars, followers, shared_items,
                 friend_requests, friendships, pendingFollows, pendingRequests>>

\* delete from friendships where user_id = currentUserId and friend_id =
\* userIdToUnfollow; error1 is looked at only after the second delete.
UnfollowDelete1(k) ==
  /\ AtSocial(k, "unfollow", "delete1")
  /\ LET me == currentUserId[socialCalls[k].session]
     IN  \E ok \in Outcomes :
           friendships' = IF ok THEN friendships \ {<<me, socialCalls[k].user>>}
                          ELSE friendships
  /\ socialCalls' = [socialCalls EXCEPT ![k].pc = "delete2"]
  /\ UNCHANGED <<envVars, voteVars, unshareVars, shareVars, ingestVars, listVars, followers, shared_items,
                 friend_requests, pendingFollows, pendingRequests, unfollowed>>

\* delete from friendships where user_id = userIdToUnfollow and friend_id =
\* currentUserId; then the handler returns.  (The list it re-reads after a
\* success is display state only.)
UnfollowDelete2(k) ==
  /\ AtSocial(k, "unfollow", "delete2")
  /\ LET me == currentUserId[socialCalls[k].session]
     IN  \E ok \in Outcomes :
           friendships' = IF ok THEN friendships \ {<<socialCalls[k].user, me>>}
                          ELSE friendships
  /\ socialCalls' = [socialCalls EXCEPT ![k] = SocialDone]
  /\ UNCHANGED <<envVars, voteVars, unshareVars, shareVars, ingestVars, listVars, followers, shared_items,
                 friend_requests, pendingFollows, pendingRequests, unfollowed>>

\* ------------------------------------------------------------------------
\* FriendsFeed: the lists of the requests tab and of the discover tab
\* ------------------------------------------------------------------------
MaxListLoads == 1

\* loadFollowRequests: the pending rows of follow_requests addressed to the
\* signed-in user; the empty list when the query fails.
LoadFollowRequests(s) ==
  /\ followRequests[s].loads < MaxListLoads
  /\ \E ok \in Outcomes :
       followRequests' =
         [followRequests EXCEPT ![s] =
            [loads |-> @.loads + 1,
             requests |-> IF ok
                          THEN {r \in follow_requests :
                                  /\ r.recipient_id = currentUserId[s]
                                  /\ r.status = "pending"}
                          ELSE {}]]
  /\ UNCHANGED <<envVars, voteVars, unshareVars, shareVars, ingestVars, followers, shared_items,
                 friend_requests, friendships, pendingFollows, socialCalls, pendingRequests,
                 unfollowed, follow_requests, discoverUsers>>

\* The filter of loadDiscoverUsers.
DiscoverUsers_ignoreRequests(allUsers, followingIds, requestIds) ==
  {user \in allUsers : user \notin followingIds}

DiscoverUsers(allUsers, followingIds, requestIds) ==
  {user \in allUsers : user \notin followingIds /\ user \notin requestIds}

\* loadDiscoverUsers: the profiles other than the signed-in user, the
\* friend_id of the user's friendships and the recipient_id of the user's
\* pending friend_requests, the three read at one state of the store.  A
\* failed profiles query leaves the list as it is, a failed friendships
\* query shows every profile, the error of the requests query is not
\* looked at.
LoadDiscoverUsers(s) ==
  /\ discoverUsers[s].loads < MaxListLoads
  /\ \E allUsersOk \in Outcomes, followingOk \in Outcomes, requestsOk \in Outcomes :
       LET me == currentUserId[s]
           allUsers == {u \in user_profiles : u # me}
           userFollowing == IF followingOk
                            THEN {f \in Users : <<me, f>> \in friendships} ELSE {}
           userRequests == IF requestsOk
                           THEN {r.recipient_id :
                                   r \in {q \in friend_requests :
                                            q.requester_id = me /\ q.status = "pending"}}
                           ELSE {}
       IN  discoverUsers' =
             [discoverUsers EXCEPT ![s] =
                [loads |-> @.loads + 1,
                 users |-> IF ~allUsersOk THEN @.users
                           ELSE IF ~followingOk THEN allUsers
                           ELSE DiscoverUsers(allUsers, userFollowing, userRequests)]]
  /\ UNCHANGED <<envVars, voteVars, unshareVars, shareVars, ingestVars, followers, shared_items,
                 friend_requests, friendships, pendingFollows, socialCalls, pendingRequests,
                 unfollowed, follow_requests, followRequests>>

\* ------------------------------------------------------------------------
\* Collector: saveUserFeed
\* ------------------------------------------------------------------------
MaxFeedRuns == 2

MaxPerSource == 1

\* The revision that saves the recommended products only, keyed on
\* (user_id, product_id), and the revision that saves every source, keyed on
\* (user_id, product_id, source); each with the user_feed_items table whose
\* unique constraint its upsert names.
Collectors == {"recommended", "allSources"}

\* The first and the last of the five sources of the second revision.
Sources == {"recommended_products", "saved_products"}

\* What the product looks like when a hook delivers it.
Titles == {"t1", "t2"}

\* An optional field of a raw record: absent (the empty sequence) or present.
Absent == <<>>

ImageUrl == "img"

\* What a hook delivers: products, some without an id, each with one image
\* that has a url.
HookItems ==
  [id : Products \cup {NULL}, title : Titles,
   images : {<< <<[url |-> ImageUrl, src |-> NULL]>> >>},
   featuredImage : {Absent}, image : {Absent}]

HookLists ==
  UNION {[1..n -> HookItems] : n \in 0..MaxPerSource}

\* a || b
OrElse(a, b) == IF a # NULL THEN a ELSE b

\* The placeholder image, keyed by the product id.
PlaceholderUrl(id) == IF id = "p1" THEN "placeholder_p1" ELSE "placeholder"

\* images of product_data: item.images mapped entry by entry when the field
\* is there, else featuredImage, else image, else the placeholder.
ResolveImages(item) ==
  IF item.images # Absent
  THEN [i \in DOMAIN item.images[1] |->
          [url |-> OrElse(item.images[1][i].url, item.images[1][i].src)]]
  ELSE IF item.featuredImage # Absent
  THEN <<[url |-> item.featuredImage[1].url]>>
  ELSE IF item.image # Absent
  THEN <<[url |-> OrElse(item.image[1].url, item.image[1].src)]>>
  ELSE <<[url |-> PlaceholderUrl(item.id)]>>

\* The conversion without the test of the id.
toProductEvent_keepNoId(item, activity_type, source) ==
  <<[product_id    |-> item.id,
     product_data  |-> [id |-> item.id, title |-> item.title,
                        images |-> ResolveImages(item)],
     activity_type |-> activity_type,
     source        |-> source,
     added_at      |-> clock]>>

\* toProductEvent: null (here the empty sequence) for an item without id,
\* else the event of the item: its snapshot, its activity type (first
\* revision only), its source and the time of the conversion.
toProductEvent(item, activity_type, source) ==
  IF item.id = NULL THEN <<>>
  ELSE <<[product_id    |-> item.id,
          product_data  |-> [id |-> item.id, title |-> item.title,
                             images |-> ResolveImages(item)],
          activity_type |-> activity_type,
          source        |-> source,
          added_at      |-> clock]>>

\* .map(p => toProductEvent(p, ...)).filter(Boolean)
RECURSIVE ProductEvents(_, _, _)
ProductEvents(items, activity_type, source) ==
  IF items = <<>> THEN <<>>
  ELSE toProductEvent(Head(items), activity_type, source)
         \o ProductEvents(Tail(items), activity_type, source)

\* allEvents, in the order of the sources.
AllEvents(recommendedProducts, savedProducts) ==
  IF collector = "recommended"
  THEN ProductEvents(recommendedProducts, "recommended", "recommended_products")
  ELSE ProductEvents(recommendedProducts, NULL, "recommended_products")
         \o ProductEvents(savedProducts, NULL, "saved_products")

\* The columns named by onConflict.
OnConflict ==
  IF collector = "recommended" THEN {"user_id", "product_id"}
  ELSE {"user_id", "product_id", "source"}

\* The row passed to upsert: every column is given the value of the event
\* (created_at in the first revision, added_at in the second).
FeedRow(userId, event) ==
  [user_id       |-> userId,
   product_id    |-> event.product_id,
   product_data  |-> event.product_data,
   activity_type |-> event.activity_type,
   source        |-> event.source,
   is_active     |-> TRUE,
   created_at    |-> event.added_at]

\* upsert(row, {onConflict}): the row that agrees with the new one on the
\* conflict columns is replaced, else the new row is added.
UpsertFeedItem(tbl, row, onConflict) ==
  {r \in tbl : \E c \in onConflict : r[c] # row[c]} \cup {row}

\* How an awaited call to the store ends inside saveUserFeed: applied,
\* resolved with an error in its result, or rejected (the await throws).
AwaitOutcomes == IF storeFaults THEN {"ok", "error", "throw"} ELSE {"ok"}

FeedDone == [session |-> "s1", pc |-> "done", events |-> <<>>]

AtFeed(k, pc) == k \in DOMAIN feedRuns /\ feedRuns[k].pc = pc

\* The effect runs saveUserFeed with what the hooks hold; it returns at once
\* when there is no event to save.
SaveUserFeed(s, recommendedProducts, savedProducts) ==
  /\ Len(feedRuns) < MaxFeedRuns
  /\ AllEvents(recommendedProducts, savedProducts) # <<>>
  /\ feedRuns' = Append(feedRuns,
                        [session |-> s, pc |-> "profile",
                         events |-> AllEvents(recommendedProducts, savedProducts)])
  /\ clock' = clock + 1
  /\ offered' = [recommendedProducts |-> recommendedProducts, savedProducts |-> savedProducts]
  /\ UNCHANGED <<envVars, voteVars, unshareVars, shareVars, socialVars, policyVars,
                 followers, shared_items,
                 user_feed_items, collector, lastUpsert, curatedFeed, sample,
                 removeCalls>>

\* upsert into user_profiles; the result is not looked at.  A rejection is
\* caught by the catch that encloses the profile upsert and the loop.
FeedProfile(k) ==
  /\ AtFeed(k, "profile")
  /\ \E out \in AwaitOutcomes :
       /\ user_profiles' = IF out = "ok"
                           THEN user_profiles \cup {currentUserId[feedRuns[k].session]}
                           ELSE user_profiles
       /\ feedRuns' = [feedRuns EXCEPT ![k] =
                         IF out = "throw" THEN FeedDone ELSE [@ EXCEPT !.pc = "items"]]
  /\ UNCHANGED <<envVars, voteVars, unshareVars, socialVars, policyVars,
                 followers, shared_items, offered,
                 shareCalls, shareClicks, user_feed_items, collector, clock, lastUpsert, curatedFeed,
                 sample, removeCalls>>

\* One turn of the loop: upsert of the next event (user_id references
\* user_profiles); the result is not looked at.  A rejection leaves the loop
\* for the enclosing catch.
FeedItem(k) ==
  /\ AtFeed(k, "items")
  /\ LET userId  == currentUserId[feedRuns[k].session]
         row     == FeedRow(userId, Head(feedRuns[k].events))
     IN  \E out \in AwaitOutcomes :
           LET applied == out = "ok" /\ userId \in user_profiles
           IN  /\ user_feed_items' =
                    IF applied THEN UpsertFeedItem(user_feed_items, row, OnConflict)
                    ELSE user_feed_items
               /\ lastUpsert' =
                    IF applied
                    THEN {r \in lastUpsert : r.user_id # row.user_id
                                               \/ r.product_id # row.product_id}
                           \cup {row}
                    ELSE lastUpsert
               /\ feedRuns' = [feedRuns EXCEPT ![k] =
                                 IF out = "throw" \/ Tail(@.events) = <<>> THEN FeedDone
                                 ELSE [@ EXCEPT !.events = Tail(@)]]
  /\ UNCHANGED <<envVars, voteVars, unshareVars, shareVars, socialVars, policyVars,
                 followers, shared_items, offered,
                 collector, clock, curatedFeed, sample, removeCalls>>

\* ------------------------------------------------------------------------
\* The feed of one user: get_user_curated_feed and UserFeed's loadData
\* ------------------------------------------------------------------------
MaxCurated == 2

MaxTime == 2

\* .limit(20) of loadData.
LoadLimit == 20

\* CHECK (activity_type IN (...)) of user_feed_items.
ActivityTypes == {"saved", "liked", "shared", "browsed", "recommended"}

ProductNames == <<"p1", "p2", "p3", "p4">>

CuratedProducts == {ProductNames[i] : i \in 1..MaxCurated}

\* A row of user_feed_items as the table admits it: any of the activity
\* types, active or not, created at any time.
CuratedRows(u, p) ==
  [user_id       : {u},
   product_id    : {p},
   product_data  : {[id |-> p, title |-> "t1"]},
   activity_type : ActivityTypes,
   source        : {"recommended_products"},
   is_active     : BOOLEAN,
   created_at    : 1..MaxTime]

\* The tables with at most one row per (user_id, product_id): any rows of u,
\* and one row of another user.
CuratedTables(u, other) ==
  LET Choices == [CuratedProducts -> {{}} \cup {{r} : r \in CuratedRows(u, "p1")}]
      OfUser(c) == UNION {{[r EXCEPT !.product_id = p, !.product_data.id = p] : r \in c[p]}
                             : p \in CuratedProducts}
      OfOther == [user_id |-> other, product_id |-> "p1",
                  product_data |-> [id |-> "p1", title |-> "t1"],
                  activity_type |-> "shared", source |-> "recommended_products",
                  is_active |-> TRUE, created_at |-> MaxTime]
  IN  {OfUser(c) \cup {OfOther} : c \in Choices}

\* CASE ufi.activity_type WHEN 'shared' THEN 1 ... ELSE 6 END
Priority(activity_type) ==
  CASE activity_type = "shared"      -> 1
    [] activity_type = "saved"       -> 2
    [] activity_type = "liked"       -> 3
    [] activity_type = "recommended" -> 4
    [] activity_type = "browsed"     -> 5
    [] OTHER                         -> 6

\* ORDER BY CASE ... END, ufi.created_at DESC: a sorts strictly before b.
CuratedBefore(a, b) ==
  \/ Priority(a.activity_type) < Priority(b.activity_type)
  \/ /\ Priority(a.activity_type) = Priority(b.activity_type)
     /\ a.created_at > b.created_at

\* .order('added_at', {ascending: false}): a sorts strictly before b.
RecentBefore(a, b) == a.created_at > b.created_at

\* The orders in which the store may return the rows under ORDER BY: every
\* arrangement in which no row comes after one it sorts strictly before.
\* before is the set of the pairs <<a, b>> in which a sorts strictly before b.
Orderings(rows, before) ==
  {q \in [1..Cardinality(rows) -> rows] :
     /\ \A i, j \in DOMAIN q : i # j => q[i] # q[j]
     /\ \A i, j \in DOMAIN q : i < j => <<q[j], q[i]>> \notin before}

\* LIMIT n
Limit(q, n) == SubSeq(q, 1, IF n < Len(q) THEN n ELSE Len(q))

NoFeed == [by |-> "none", user |-> "u1", limit |-> 0, items |-> <<>>]

\* SELECT ... WHERE user_id = user_id_param AND is_active = true
\* ORDER BY priority, created_at DESC LIMIT limit_count
GetUserCuratedFeed(user_id_param, limit_count) ==
  /\ \E q \in Orderings({ufi \in user_feed_items :
                            ufi.user_id = user_id_param /\ ufi.is_active = TRUE},
                        {ab \in user_feed_items \X user_feed_items :
                            CuratedBefore(ab[1], ab[2])}) :
       curatedFeed' = [by |-> "get_user_curated_feed", user |-> user_id_param,
                       limit |-> limit_count, items |-> Limit(q, limit_count)]
  /\ UNCHANGED <<envVars, voteVars, unshareVars, shareVars, socialVars, policyVars,
                 followers, shared_items, offered,
                 user_feed_items, collector, feedRuns, clock, lastUpsert, sample, removeCalls>>

\* loadData of UserFeed: the profile of the user, then the user's rows by
\* time, newest first, at most 20; a failed profile query leaves the feed as
\* it is, a failed items query empties it.
LoadData(userId) ==
  /\ userId \in user_profiles
  /\ \E profileOk \in Outcomes, itemsOk \in Outcomes,
        q \in Orderings({r \in user_feed_items : r.user_id = userId},
                         {ab \in user_feed_items \X user_feed_items :
                             RecentBefore(ab[1], ab[2])}) :
       curatedFeed' =
         IF ~profileOk THEN curatedFeed
         ELSE [by |-> "loadData", user |-> userId, limit |-> LoadLimit,
               items |-> IF itemsOk THEN Limit(q, LoadLimit) ELSE <<>>]
  /\ UNCHANGED <<envVars, voteVars, unshareVars, shareVars, socialVars, policyVars,
                 followers, shared_items, offered,
                 user_feed_items, collector, feedRuns, clock, lastUpsert, sample, removeCalls>>

\* .limit(10) of the sample query.
SampleLimit == 10

NoSample == [computed |-> FALSE, user |-> "u1", sampleProducts |-> <<>>, randomIndex |-> 0,
             sample_product |-> <<>>]

\* The sample product of one profile in loadUserProfiles: the user's rows by
\* time, newest first, at most 10 (null, here the empty list, when the query
\* fails); randomIndex = floor(random() * (length || 1)); the product at that
\* index, or null (here the empty sequence).
GetSample(user_id) ==
  /\ user_id \in user_profiles
  /\ \E ok \in Outcomes,
        q \in Orderings({r \in user_feed_items : r.user_id = user_id},
                         {ab \in user_feed_items \X user_feed_items :
                             RecentBefore(ab[1], ab[2])}) :
       LET sampleProducts == IF ok THEN Limit(q, SampleLimit) ELSE <<>>
           n == IF Len(sampleProducts) = 0 THEN 1 ELSE Len(sampleProducts)
       IN  \E randomIndex \in 0..(n - 1) :
             sample' = [computed |-> TRUE,
                        user |-> user_id, sampleProducts |-> sampleProducts,
                        randomIndex |-> randomIndex,
                        sample_product |->
                          IF randomIndex + 1 \in DOMAIN sampleProducts
                          THEN <<sampleProducts[randomIndex + 1]>> ELSE <<>>]
  /\ UNCHANGED <<envVars, voteVars, unshareVars, shareVars, socialVars, policyVars,
                 followers, shared_items, offered,
                 user_feed_items, collector, feedRuns, clock, lastUpsert, curatedFeed,
                 removeCalls>>

MaxRemoveCalls == 2

\* The owner taps a product of the feed shown on the device:
\* handleRemoveFromFeed logs the product id and returns; it calls the store
\* for nothing.
HandleRemoveFromFeed(s, productId) ==
  /\ Len(removeCalls) < MaxRemoveCalls
  /\ curatedFeed.by = "loadData"
  /\ curatedFeed.user = currentUserId[s]
  /\ \E i \in DOMAIN curatedFeed.items : curatedFeed.items[i].product_id = productId
  /\ removeCalls' = Append(removeCalls, [session |-> s, productId |-> productId])
  /\ UNCHANGED <<envVars, voteVars, unshareVars, shareVars, socialVars, policyVars,
                 followers, shared_items, offered,
                 user_feed_items, collector, feedRuns, clock, lastUpsert, curatedFeed,
                 sample>>

\* ------------------------------------------------------------------------
\* Row level security: the policies of the tables
\* ------------------------------------------------------------------------
MaxRlsRows == 1

\* User ids, as the strings of characters LIKE works on: two ids of the form
\* the sample data and the policies name, and two that auth.uid() gives.
Identities ==
  { <<"u", "s", "e", "r", "_", "a">>, <<"u", "s", "e", "r", "_", "b">>,
    <<"7", "f">>, <<"9", "c">> }

\* 'user_%'
UserPattern == <<"u", "s", "e", "r", "_", "%">>

\* str LIKE pattern: _ stands for one character, % for any characters.
RECURSIVE Like(_, _)
Like(str, pattern) ==
  IF pattern = <<>> THEN str = <<>>
  ELSE IF Head(pattern) = "%"
  THEN \E n \in 0..Len(str) : Like(SubSeq(str, n + 1, Len(str)), Tail(pattern))
  ELSE /\ str # <<>>
       /\ Head(pattern) = "_" \/ Head(pattern) = Head(str)
       /\ Like(Tail(str), Tail(pattern))

\* The tables with a policy FOR ALL (or FOR INSERT, UPDATE and DELETE) on
\* their owner column.
RlsTables ==
  {"user_profiles", "followers", "follow_requests", "user_feed_items",
   "user_shop_interactions", "user_category_affinities", "shared_items", "item_votes"}

\* USING / WITH CHECK (auth.uid()::text = owner OR owner LIKE 'user_%')
ManageOwnRows(authUid, owner) ==
  authUid = owner \/ Like(owner, UserPattern)

NoRls == [rows |-> {}, auth |-> <<>>, cmd |-> "none"]

\* INSERT by authUid of a row with the given owner: WITH CHECK on the new row.
RlsInsert(authUid, tbl, owner) ==
  /\ Cardinality(rls.rows) < MaxRlsRows
  /\ ManageOwnRows(authUid, owner)
  /\ rls' = [rows |-> rls.rows \cup {[tbl |-> tbl, owner |-> owner, data |-> 0]},
             auth |-> authUid, cmd |-> "insert"]
  /\ UNCHANGED <<envVars, voteVars, unshareVars, shareVars, socialVars, followers, shared_items,
                 user_feed_items, collector, feedRuns, clock, lastUpsert, curatedFeed, sample,
                 removeCalls, offered>>

\* UPDATE by authUid of the data of a row: USING on the row.
RlsUpdate(authUid, row) ==
  /\ row \in rls.rows
  /\ ManageOwnRows(authUid, row.owner)
  /\ rls' = [rows |-> (rls.rows \ {row}) \cup {[row EXCEPT !.data = 1 - @]},
             auth |-> authUid, cmd |-> "update"]
  /\ UNCHANGED <<envVars, voteVars, unshareVars, shareVars, socialVars, followers, shared_items,
                 user_feed_items, collector, feedRuns, clock, lastUpsert, curatedFeed, sample,
                 removeCalls, offered>>

\* DELETE by authUid of a row: USING on the row.
RlsDelete(authUid, row) ==
  /\ row \in rls.rows
  /\ ManageOwnRows(authUid, row.owner)
  /\ rls' = [rows |-> rls.rows \ {row}, auth |-> authUid, cmd |-> "delete"]
  /\ UNCHANGED <<envVars, voteVars, unshareVars, shareVars, socialVars, followers, shared_items,
                 user_feed_items, collector, feedRuns, clock, lastUpsert, curatedFeed, sample,
                 removeCalls, offered>>

\* ------------------------------------------------------------------------
\* Initial states: the parts of the state a specification does not exercise
\* ------------------------------------------------------------------------
ItemIds == 1..MaxShareCalls

FeedIdle ==
  /\ item_votes = EmptyBag
  /\ sharedItems = [s \in Sessions |-> {}]
  /\ load = [s \in Sessions |-> NoLoad("unmounted")]
  /\ voteCalls = <<>>
  /\ solo = [i \in ItemIds |-> [u \in Users |-> NULL]]
  /\ toggled = [i \in ItemIds |-> [u \in Users |-> NULL]]

UnshareIdle == deleteCalls = <<>>

SocialIdle ==
  /\ friend_requests = {}
  /\ friendships = {}
  /\ pendingFollows = [s \in Sessions |-> {}]
  /\ socialCalls = <<>>
  /\ pendingRequests = [s \in Sessions |-> {}]
  /\ unfollowed = {}
  /\ follow_requests = {}
  /\ followRequests = [s \in Sessions |-> [loads |-> 0, requests |-> {}]]
  /\ discoverUsers = [s \in Sessions |-> [loads |-> 0, users |-> {}]]

IngestIdle ==
  /\ user_feed_items = {}
  /\ feedRuns = <<>>
  /\ clock = 1
  /\ lastUpsert = {}
  /\ curatedFeed = NoFeed
  /\ sample = NoSample
  /\ removeCalls = <<>>
  /\ offered = [recommendedProducts |-> <<>>, savedProducts |-> <<>>]
  /\ rls = NoRls

vars == <<envVars, followers, shared_items, voteVars, shareVars, unshareVars, socialVars,
         ingestVars>>

\* ------------------------------------------------------------------------
\* Specification of the vote ledger: one shared item of u1, which u2 follows
\* ------------------------------------------------------------------------
InitVote ==
  /\ currentUserId \in SignIns
  /\ storeFaults \in BOOLEAN
  /\ followers = {<<"u2", "u1">>}
  /\ shared_items = {[id |-> 1, user_id |-> "u1", product_id |-> "p1", is_active |-> TRUE]}
  /\ FeedIdle
  /\ user_profiles = Users
  /\ shareCalls = [s \in Sessions |-> NoShare]
  /\ shareClicks = 1
  /\ UnshareIdle
  /\ SocialIdle
  /\ IngestIdle
  /\ collector = "recommended"

NextVote ==
  \/ \E s \in Sessions : Mount(s)
  \/ \E s \in Sessions : LoadFollowing(s)
  \/ \E s \in Sessions : LoadItems(s)
  \/ \E s \in Sessions : LoadLikeCount(s)
  \/ \E s \in Sessions : LoadDislikeCount(s)
  \/ \E s \in Sessions : LoadUserVote(s)
  \/ \E s \in Sessions, i \in ItemIds, t \in VoteTypes : VoteClick(s, i, t)
  \/ \E k \in 1..MaxVoteCalls : VoteWrite(k)
  \/ \E k \in 1..MaxVoteCalls : VoteWriteError(k)
  \/ \E k \in 1..MaxVoteCalls : RefreshLikeCount(k)
  \/ \E k \in 1..MaxVoteCalls : RefreshDislikeCount(k)
  \/ \E k \in 1..MaxVoteCalls : RefreshUserVote(k)

SpecVote == InitVote /\ [][NextVote]_vars

\* ------------------------------------------------------------------------
\* Specification of sharing and of the shared-item feed
\* ------------------------------------------------------------------------
InitShare ==
  /\ currentUserId \in SignIns
  /\ storeFaults \in BOOLEAN
  /\ followers \in SUBSET {<<"u1", "u2">>, <<"u2", "u1">>}
  /\ shared_items = {}
  /\ FeedIdle
  /\ user_profiles = {}
  /\ shareCalls = [s \in Sessions |-> NoShare]
  /\ shareClicks = 0
  /\ UnshareIdle
  /\ SocialIdle
  /\ IngestIdle
  /\ collector = "recommended"

NextShare ==
  \/ \E s \in Sessions : Mount(s)
  \/ \E s \in Sessions : LoadFollowing(s)
  \/ \E s \in Sessions : LoadItems(s)
  \/ \E s \in Sessions : LoadLikeCount(s)
  \/ \E s \in Sessions : LoadDislikeCount(s)
  \/ \E s \in Sessions : LoadUserVote(s)
  \/ \E s \in Sessions, p \in Products : ShareClick(s, p)
  \/ \E s \in Sessions : ShareProfile(s)
  \/ \E s \in Sessions : ShareCheck(s)
  \/ \E s \in Sessions : ShareInsert(s)

SpecShare == InitShare /\ [][NextShare]_vars

\* ------------------------------------------------------------------------
\* Specification of the removal of shared items: u1 and u2 follow each
\* other, each has shared one item and has voted on the other's
\* ------------------------------------------------------------------------
InitUnshare ==
  /\ currentUserId \in SignIns
  /\ storeFaults \in BOOLEAN
  /\ followers = {<<"u1", "u2">>, <<"u2", "u1">>}
  /\ shared_items = {[id |-> 1, user_id |-> "u1", product_id |-> "p1", is_active |-> TRUE],
                     [id |-> 2, user_id |-> "u2", product_id |-> "p1", is_active |-> TRUE]}
  /\ item_votes = SetToBag({VoteRow(1, "u2", "like"), VoteRow(2, "u1", "dislike")})
  /\ sharedItems = [s \in Sessions |-> {}]
  /\ load = [s \in Sessions |-> NoLoad("unmounted")]
  /\ voteCalls = <<>>
  /\ solo = [i \in ItemIds |-> [u \in Users |-> SingleVote(item_votes, i, u)]]
  /\ toggled = solo
  /\ user_profiles = Users
  /\ shareCalls = [s \in Sessions |-> NoShare]
  /\ shareClicks = 2
  /\ UnshareIdle
  /\ SocialIdle
  /\ IngestIdle
  /\ collector = "recommended"

NextUnshare ==
  \/ \E s \in Sessions : Mount(s)
  \/ \E s \in Sessions : LoadFollowing(s)
  \/ \E s \in Sessions : LoadItems(s)
  \/ \E s \in Sessions : LoadLikeCount(s)
  \/ \E s \in Sessions : LoadDislikeCount(s)
  \/ \E s \in Sessions : LoadUserVote(s)
  \/ \E s \in Sessions, i \in ItemIds : DeleteClick(s, i)
  \/ \E k \in 1..MaxDeleteCalls : DeleteApply(k)

SpecUnshare == InitUnshare /\ [][NextUnshare]_vars

\* ------------------------------------------------------------------------
\* Specification of the follow requests: every user has a profile
\* ------------------------------------------------------------------------
InitSocial ==
  /\ currentUserId \in SignIns
  /\ storeFaults \in BOOLEAN
  /\ followers = {}
  /\ shared_items = {}
  /\ FeedIdle
  /\ user_profiles = Users
  /\ shareCalls = [s \in Sessions |-> NoShare]
  /\ shareClicks = 0
  /\ UnshareIdle
  /\ SocialIdle
  /\ IngestIdle
  /\ collector = "recommended"

NextSocial ==
  \/ \E s \in Sessions, u \in Users : SendFollowRequest(s, u)
  \/ \E k \in 1..MaxSocialCalls : SendFollowRequestInsert(k)
  \/ \E s \in Sessions, r \in RequestIds : AcceptFollowRequest(s, r)
  \/ \E k \in 1..MaxSocialCalls : AcceptUpdate(k)
  \/ \E k \in 1..MaxSocialCalls : AcceptEdge1(k)
  \/ \E k \in 1..MaxSocialCalls : AcceptEdge2(k)
  \/ \E s \in Sessions, r \in RequestIds : DeclineFollowRequest(s, r)
  \/ \E k \in 1..MaxSocialCalls : DeclineUpdate(k)
  \/ \E s \in Sessions, u \in Users : FollowUser(s, u)
  \/ \E k \in 1..MaxSocialCalls : FollowEdge1(k)
  \/ \E k \in 1..MaxSocialCalls : FollowEdge2(k)
  \/ \E s \in Sessions, u \in Users : UnfollowUser(s, u)
  \/ \E k \in 1..MaxSocialCalls : UnfollowDelete1(k)
  \/ \E k \in 1..MaxSocialCalls : UnfollowDelete2(k)

SpecSocial == InitSocial /\ [][NextSocial]_vars

\* The same with the requests tab opened at any moment.
NextRequests ==
  \/ \E s \in Sessions, u \in Users : SendFollowRequest(s, u)
  \/ \E k \in 1..MaxSocialCalls : SendFollowRequestInsert(k)
  \/ \E s \in Sessions, r \in RequestIds : AcceptFollowRequest(s, r)
  \/ \E k \in 1..MaxSocialCalls : AcceptUpdate(k)
  \/ \E k \in 1..MaxSocialCalls : AcceptEdge1(k)
  \/ \E k \in 1..MaxSocialCalls : AcceptEdge2(k)
  \/ \E s \in Sessions, r \in RequestIds : DeclineFollowRequest(s, r)
  \/ \E k \in 1..MaxSocialCalls : DeclineUpdate(k)
  \/ \E s \in Sessions : LoadFollowRequests(s)

SpecRequests == InitSocial /\ [][NextRequests]_vars

\* The same with the discover tab opened at any moment.
NextDiscover ==
  \/ NextSocial
  \/ \E s \in Sessions : LoadDiscoverUsers(s)

SpecDiscover == InitSocial /\ [][NextDiscover]_vars

\* ------------------------------------------------------------------------
\* Specification of following and the shared-item feed: u2 has shared one
\* item, nobody follows anybody yet
\* ------------------------------------------------------------------------
InitFeed ==
  /\ currentUserId \in SignIns
  /\ storeFaults \in BOOLEAN
  /\ followers = {}
  /\ shared_items = {[id |-> 1, user_id |-> "u2", product_id |-> "p1", is_active |-> TRUE]}
  /\ FeedIdle
  /\ user_profiles = Users
  /\ shareCalls = [s \in Sessions |-> NoShare]
  /\ shareClicks = 1
  /\ UnshareIdle
  /\ SocialIdle
  /\ IngestIdle
  /\ collector = "recommended"

NextFeed ==
  \/ \E s \in Sessions : Mount(s)
  \/ \E s \in Sessions : LoadFollowing(s)
  \/ \E s \in Sessions : LoadItems(s)
  \/ \E s \in Sessions : LoadLikeCount(s)
  \/ \E s \in Sessions : LoadDislikeCount(s)
  \/ \E s \in Sessions : LoadUserVote(s)
  \/ \E s \in Sessions, u \in Users : FollowUser(s, u)
  \/ \E k \in 1..MaxSocialCalls : FollowEdge1(k)
  \/ \E k \in 1..MaxSocialCalls : FollowEdge2(k)

SpecFeed == InitFeed /\ [][NextFeed]_vars

\* ------------------------------------------------------------------------
\* Specification of the collector: no profile and no feed item stored yet
\* ------------------------------------------------------------------------
InitIngest ==
  /\ currentUserId \in SignIns
  /\ storeFaults \in BOOLEAN
  /\ followers = {}
  /\ shared_items = {}
  /\ FeedIdle
  /\ user_profiles = {}
  /\ shareCalls = [s \in Sessions |-> NoShare]
  /\ shareClicks = 0
  /\ UnshareIdle
  /\ SocialIdle
  /\ IngestIdle
  /\ collector \in Collectors

NextIngest ==
  \/ \E s \in Sessions, rec \in HookLists, saved \in HookLists : SaveUserFeed(s, rec, saved)
  \/ \E k \in 1..MaxFeedRuns : FeedProfile(k)
  \/ \E k \in 1..MaxFeedRuns : FeedItem(k)
  \/ \E u \in Users : LoadData(u)
  \/ \E s \in Sessions, p \in Products : HandleRemoveFromFeed(s, p)

SpecIngest == InitIngest /\ [][NextIngest]_vars

\* Any identity issuing any write on any table.
RlsRowValues == [tbl : RlsTables, owner : Identities, data : {0, 1}]

NextPolicy ==
  \/ \E a \in Identities, t \in RlsTables, o \in Identities : RlsInsert(a, t, o)
  \/ \E a \in Identities, r \in RlsRowValues : RlsUpdate(a, r)
  \/ \E a \in Identities, r \in RlsRowValues : RlsDelete(a, r)

SpecPolicy == InitIngest /\ [][NextPolicy]_vars

\* The collector given raw records with every shape of the image fields.
MaxImages == 1

ImageEntries == [url : {ImageUrl, NULL}, src : {ImageUrl, NULL}]

ImageLists == UNION {[1..n -> ImageEntries] : n \in 0..MaxImages}

RawItems ==
  [id : Products, title : {"t1"},
   images : {Absent} \cup {<<l>> : l \in ImageLists},
   featuredImage : {Absent} \cup {<<[url |-> u]>> : u \in {ImageUrl, NULL}},
   image : {Absent} \cup {<<e>> : e \in ImageEntries}]

NextSnapshot ==
  \/ \E s \in Sessions, item \in RawItems : SaveUserFeed(s, <<item>>, <<>>)
  \/ \E k \in 1..MaxFeedRuns : FeedProfile(k)
  \/ \E k \in 1..MaxFeedRuns : FeedItem(k)

SpecSnapshot == InitIngest /\ [][NextSnapshot]_vars

\* The feed of u1 read from a table that holds rows of every activity type.
InitCurator ==
  /\ currentUserId = [s \in Sessions |-> "u1"]
  /\ storeFaults \in BOOLEAN
  /\ followers = {}
  /\ shared_items = {}
  /\ FeedIdle
  /\ user_profiles = Users
  /\ shareCalls = [s \in Sessions |-> NoShare]
  /\ shareClicks = 0
  /\ UnshareIdle
  /\ SocialIdle
  /\ collector = "recommended"
  /\ user_feed_items \in CuratedTables("u1", "u2")
  /\ feedRuns = <<>>
  /\ clock = MaxTime + 1
  /\ lastUpsert = {}
  /\ curatedFeed = NoFeed
  /\ sample = NoSample
  /\ removeCalls = <<>>
  /\ offered = [recommendedProducts |-> <<>>, savedProducts |-> <<>>]
  /\ rls = NoRls

NextCurator ==
  \/ \E u \in Users, n \in 0..MaxCurated : GetUserCuratedFeed(u, n)
  \/ \E u \in Users : LoadData(u)
  \/ \E u \in Users : GetSample(u)

SpecCurator == InitCurator /\ [][NextCurator]_vars

\* ------------------------------------------------------------------------
\* Properties of the vote ledger
\* ------------------------------------------------------------------------
StoredVote(itemId, voter) == SingleVote(item_votes, itemId, voter)

Voter(c) == currentUserId[c.session]

\* C1: for one voter and one item, a vote call that does not overlap another
\* call of the same voter on the item acts on the STORED vote by the toggle
\* rules: no stored vote -> one vote of type t; stored vote t -> removed;
\* stored vote of the opposite type -> replaced (so like, like ends with no
\* vote and like, dislike ends with one dislike).  Stated for the runs in
\* which every store call succeeds.
C1_VoteTogglesStoredVote ==
  [][\A k \in 1..Len(voteCalls) :
        ( /\ ~storeFaults
          /\ voteCalls[k].pc = "write"
          /\ ~voteCalls[k].overlapped
          /\ voteCalls'[k].pc = "likeCount" )
        => StoredVote(voteCalls[k].item, Voter(voteCalls[k]))'
             = (IF StoredVote(voteCalls[k].item, Voter(voteCalls[k])) = voteCalls[k].voteType
                THEN NULL ELSE voteCalls[k].voteType)]_vars

\* C4: in every reachable state there is at most one vote row per
\* (shared_item_id, voter_id); a change of opinion changes that row.
C4_OneVoteRowPerVoter ==
  \A i \in ItemIds, v \in Users : VoterRowCount(item_votes, i, v) <= 1

\* A voter whose stored vote was like has had a dislike written: one row, now dislike.
C4_Witness ==
  /\ ~storeFaults
  /\ Len(voteCalls) = 2
  /\ voteCalls[1].session = voteCalls[2].session
  /\ voteCalls[1].pc = "done" /\ ~voteCalls[1].overlapped
  /\ voteCalls[2].pc = "likeCount"
  /\ voteCalls[2].user_vote = "like" /\ voteCalls[2].voteType = "dislike"
  /\ item_votes = SetToBag({VoteRow(voteCalls[2].item, Voter(voteCalls[2]), "dislike")})

\* C7: two calls of one voter on one item from one session, the second clicked
\* before the first has resolved, no store error: once both have resolved, the
\* stored vote, the displayed vote and the displayed tally are those of the
\* two calls applied one after the other under the toggle rules.
C7_OverlappingVotesAsSequential ==
  ( /\ ~storeFaults
    /\ Len(voteCalls) = 2
    /\ voteCalls[1].session = voteCalls[2].session
    /\ voteCalls[1].item = voteCalls[2].item
    /\ voteCalls[1].overlapped /\ voteCalls[2].overlapped
    /\ voteCalls[1].pc = "done" /\ voteCalls[2].pc = "done" )
  => LET s == voteCalls[1].session
         i == voteCalls[1].item
         v == currentUserId[s]
     IN  /\ StoredVote(i, v) = toggled[i][v]
         /\ \A rec \in sharedItems[s] :
               rec.id = i =>
                 /\ rec.user_vote = toggled[i][v]
                 /\ rec.like_count = (IF toggled[i][v] = "like" THEN 1 ELSE 0)
                 /\ rec.dislike_count = (IF toggled[i][v] = "dislike" THEN 1 ELSE 0)

\* C8: whatever the interleaving of the calls of different voters, each
\* voter's stored row is the one the voter's own writes give on a ledger
\* without the other voters, and the tally counted from the rows is the
\* number of voters whose vote is like, and dislike.
C8_VotersAreIndependent ==
  \A i \in ItemIds :
     /\ \A v \in Users : VoterRowCount(item_votes, i, v) <= 1
                         /\ StoredVote(i, v) = solo[i][v]
     /\ \A t \in VoteTypes :
          CountVotes(item_votes, i, t) = Cardinality({v \in Users : solo[i][v] = t})

\* Two voters' calls on the same item are both between their write and the
\* end of their re-read, and both votes are stored.
C8_Witness ==
  /\ Len(voteCalls) = 2
  /\ Voter(voteCalls[1]) # Voter(voteCalls[2])
  /\ voteCalls[1].item = voteCalls[2].item
  /\ voteCalls[1].pc \in {"likeCount", "dislikeCount", "userVote"}
  /\ voteCalls[2].pc \in {"likeCount", "dislikeCount", "userVote"}
  /\ CountVotes(item_votes, voteCalls[1].item, "like") = 1
  /\ CountVotes(item_votes, voteCalls[1].item, "dislike") = 1

\* The record of item i shown by session s (the records of one session have
\* distinct ids).
Shown(s, i) == CHOOSE rec \in sharedItems[s] : rec.id = i

\* The call k returns from its failed write in this step.
WriteFails(k) ==
  /\ k \in 1..Len(voteCalls)
  /\ voteCalls[k].pc = "write"
  /\ voteCalls'[k].failed

\* C11: when the store write of a vote call fails (and no other call of the
\* voter on the item overlapped it), the like_count, dislike_count and viewer
\* vote shown for the item are again those shown before the call.
C11_FailedVoteIsRolledBack ==
  [][\A k \in 1..MaxVoteCalls :
        (WriteFails(k) /\ ~voteCalls[k].overlapped)
        => LET c == voteCalls[k]
               rec == Shown(c.session, c.item)'
           IN  /\ rec.like_count = c.like_count
               /\ rec.dislike_count = c.dislike_count
               /\ rec.user_vote = c.user_vote]_vars

\* C12: a vote call fails without having written anything and the same
\* session then re-issues the identical call (same item, same vote type), whose
\* write succeeds: the rows the store then holds are those that the write of
\* the first call would have left, so that the stored vote and the tally
\* counted from the rows are those of a single successful call.
C12_RetryAsSingleCall ==
  [][\A k \in 2..MaxVoteCalls :
        ( /\ k <= Len(voteCalls)
          /\ voteCalls[k - 1].failed
          /\ ~voteCalls[k - 1].overlapped /\ ~voteCalls[k].overlapped
          /\ voteCalls[k - 1].session = voteCalls[k].session
          /\ voteCalls[k - 1].item = voteCalls[k].item
          /\ voteCalls[k - 1].voteType = voteCalls[k].voteType
          /\ voteCalls[k].pc = "write"
          /\ voteCalls'[k].pc = "likeCount" )
        => item_votes' = ApplyVote(item_votes, voteCalls[k - 1])]_vars

\* C13: when a vote call has resolved, every one of its store calls having
\* returned without error and no other write on the item having been applied
\* between its write and its re-read, the like_count and dislike_count it
\* shows are the numbers of stored like and dislike rows of the item and the
\* viewer vote it shows is the viewer's stored row, or none.
C13_TallyRecomputedFromRows ==
  [][\A k \in 1..MaxVoteCalls :
        ( /\ k <= Len(voteCalls)
          /\ voteCalls[k].pc = "userVote"
          /\ voteCalls'[k].pc = "done"
          /\ voteCalls'[k].clean )
        => LET c == voteCalls[k]
               rec == Shown(c.session, c.item)'
               rows(t) == {r \in BagToSet(item_votes) :
                             r.shared_item_id = c.item /\ r.vote_type = t}
           IN  /\ rec.like_count = Cardinality(rows("like"))
               /\ rec.dislike_count = Cardinality(rows("dislike"))
               /\ \/ /\ rec.user_vote = NULL
                     /\ VoterRows(item_votes, c.item, Voter(c)) = {}
                  \/ VoteRow(c.item, Voter(c), rec.user_vote) \in BagToSet(item_votes)]_vars

\* A call has resolved while two voters' rows are stored on its item, one
\* like and one dislike, and it shows them.
C13_Witness ==
  \E k \in 1..Len(voteCalls) :
     /\ voteCalls[k].pc = "done" /\ voteCalls[k].clean /\ ~voteCalls[k].failed
     /\ \E s \in Sessions : \E rec \in sharedItems[s] :
          /\ rec.like_count = 1 /\ rec.dislike_count = 1 /\ rec.user_vote # NULL
          /\ CountVotes(item_votes, rec.id, "like") = 1
          /\ CountVotes(item_votes, rec.id, "dislike") = 1

\* ------------------------------------------------------------------------
\* Properties of sharing and of the shared-item feed
\* ------------------------------------------------------------------------
Follows(v, x) == <<v, x>> \in followers

C9_OneActiveSharePerProduct ==
  \A u \in Users, p \in Products :
     Cardinality(ExistingShares(shared_items, u, p)) <= 1

\* ------------------------------------------------------------------------
\* Properties of the removal of shared items
\* ------------------------------------------------------------------------
\* The call k resolves in this step.
DeleteResolves(k) ==
  /\ k \in 1..Len(deleteCalls)
  /\ deleteCalls[k].pc = "delete"
  /\ deleteCalls'[k].pc = "done"

\* C14: when the owner's removal of an item has resolved without being
\* reverted, the shared item is still stored, deactivated, so that no feed
\* loaded afterwards shows it, and every vote row cast on it is still stored.
C14_UnshareKeepsVotes ==
  [][\A k \in 1..MaxDeleteCalls :
        (DeleteResolves(k) /\ sharedItems' = sharedItems)
        => /\ item_votes' = item_votes
           /\ \E r \in shared_items' : r.id = deleteCalls[k].item.id /\ ~r.is_active]_vars

\* C15: a shared item (and with it its votes) leaves the store only in a
\* step of a removal called by the user who shared it, and a removal called
\* by any other user changes neither the shared items, nor the votes, nor
\* the feed any session shows.
C15_OnlySharerRetracts ==
  [][ /\ \A r \in shared_items :
            (r \notin shared_items' \/ CascadeVotes(item_votes', {r}) # CascadeVotes(item_votes, {r}))
            => \E k \in 1..MaxDeleteCalls :
                  /\ DeleteResolves(k)
                  /\ deleteCalls[k].item.id = r.id
                  /\ currentUserId[deleteCalls[k].session] = r.user_id
      /\ \A k \in 1..MaxDeleteCalls :
            ( /\ Len(deleteCalls') = k /\ Len(deleteCalls) = k - 1
              /\ deleteCalls'[k].item.user_id # currentUserId[deleteCalls'[k].session] )
            => UNCHANGED <<shared_items, item_votes, sharedItems>>
    ]_vars

\* A user has called the removal of another user's item, and a sharer's own
\* removal has been applied by the store.
C15_Witness ==
  /\ \E k \in 1..Len(deleteCalls) :
        deleteCalls[k].item.user_id # currentUserId[deleteCalls[k].session]
  /\ \E k \in 1..Len(deleteCalls) :
        /\ deleteCalls[k].pc = "done"
        /\ deleteCalls[k].item.user_id = currentUserId[deleteCalls[k].session]
        /\ \A r \in shared_items : r.id # deleteCalls[k].item.id

\* ------------------------------------------------------------------------
\* Properties of the follow requests
\* ------------------------------------------------------------------------
\* The call k takes a step.
SocialStep(k) == k \in DOMAIN socialCalls /\ socialCalls'[k] # socialCalls[k]

C10_SecondRequestIsAlreadyPending ==
  [][\A k \in 1..MaxSocialCalls :
        ( /\ ~storeFaults
          /\ AtSocial(k, "send", "insert")
          /\ SocialStep(k)
          /\ \E r \in RequestsBetween(friend_requests,
                                      currentUserId[socialCalls[k].session],
                                      socialCalls[k].user) : r.status = "pending" )
        => /\ friend_requests' = friend_requests
           /\ socialCalls[k].user \in pendingFollows'[socialCalls[k].session]
    ]_vars

\* C16: whenever no follow, accept or unfollow call is in progress, the
\* friendships row user -> friend is stored exactly when the row
\* friend -> user is, also after a call one of whose two writes failed; and
\* when an unfollow returns, no other call being in progress, neither row of
\* its pair is stored.
C16_EdgesStayMutual ==
  /\ []( (\A k \in DOMAIN socialCalls : socialCalls[k].pc = "done")
         => \A a \in Users, b \in Users :
               <<a, b>> \in friendships <=> <<b, a>> \in friendships )
  /\ [][\A k \in 1..MaxSocialCalls :
           ( /\ AtSocial(k, "unfollow", "delete2")
             /\ SocialStep(k)
             /\ \A j \in DOMAIN socialCalls : j # k => socialCalls[j].pc = "done" )
           => LET me == currentUserId[socialCalls[k].session]
              IN  /\ <<me, socialCalls[k].user>> \notin friendships'
                  /\ <<socialCalls[k].user, me>> \notin friendships']_vars

\* ------------------------------------------------------------------------
\* Properties of following and the shared-item feed
\* ------------------------------------------------------------------------
\* C17: in the runs without store error, the users whose items a load of V's
\* feed selects include every user V follows when the load reads them (the
\* friendships row V -> X, written by followUser and by the acceptance of
\* V's request), and the items it then reads are all the active shared
\* items of these users and of V.
C17_FeedHasItemsOfFollowed ==
  [][\A s \in Sessions :
        /\ (~storeFaults /\ load[s].pc = "following" /\ load'[s].pc = "items")
           => /\ currentUserId[s] \in load'[s].allowedUserIds
              /\ \A x \in Users :
                    <<currentUserId[s], x>> \in friendships
                    => x \in load'[s].allowedUserIds
        /\ (~storeFaults /\ load[s].pc = "items" /\ load'[s].pc # "items")
           => \A r \in shared_items :
                 (r.is_active /\ r.user_id \in load[s].allowedUserIds)
                 => r \in load'[s].items
    ]_vars

\* ------------------------------------------------------------------------
\* Properties of the collector
\* ------------------------------------------------------------------------
\* C2: whatever the runs, their sources and their interleaving, the store
\* holds at most one feed item per (user_id, product_id).
C2_OneFeedItemPerProduct ==
  \A u \in Users, p \in Products :
     Cardinality({r \in user_feed_items : r.user_id = u /\ r.product_id = p}) <= 1

\* C18: when the same (user_id, product_id) is ingested more than once, by
\* one run or by racing runs for different sources, what the store holds
\* for the pair is the row of the last upsert the store applied for it:
\* snapshot, activity_type, source and timestamp are all those of that
\* upsert, and nothing of an earlier ingestion remains.
C18_LastUpsertWins ==
  \A r \in lastUpsert :
     {x \in user_feed_items : x.user_id = r.user_id /\ x.product_id = r.product_id} = {r}

\* C19: within one batch, a failed upsert of an item (error returned or
\* call rejected) does not abort the batch: while items remain, the run goes
\* on to the next one.
C19_FailedItemDoesNotAbortBatch ==
  [][\A k \in 1..MaxFeedRuns :
        ( /\ AtFeed(k, "items")
          /\ feedRuns'[k] # feedRuns[k]
          /\ Len(feedRuns[k].events) > 1 )
        => /\ feedRuns'[k].pc = "items"
           /\ feedRuns'[k].events = Tail(feedRuns[k].events)]_vars

\* ------------------------------------------------------------------------
\* Properties of the feed of one user
\* ------------------------------------------------------------------------
Eligible(u) == {r \in user_feed_items : r.user_id = u /\ r.is_active}

\* C20: the feed obtained for a user with a limit holds the user's active
\* items ordered by the priority shared > saved > liked > recommended >
\* browsed and, within one priority, by created_at descending, cut to the
\* first limit items of that order: the items are distinct eligible rows,
\* as many as the limit and the table allow, each placed no later than an
\* item it does not precede, and no item left out precedes one returned.
C20_FeedRankedByActivityType ==
  (~storeFaults /\ curatedFeed.by # "none") =>
    LET items == curatedFeed.items
        rows  == Eligible(curatedFeed.user)
        Rank(r) == CASE r.activity_type = "shared"      -> 1
                     [] r.activity_type = "saved"       -> 2
                     [] r.activity_type = "liked"       -> 3
                     [] r.activity_type = "recommended" -> 4
                     [] r.activity_type = "browsed"     -> 5
        Precedes(a, b) == \/ Rank(a) < Rank(b)
                          \/ Rank(a) = Rank(b) /\ a.created_at > b.created_at
    IN  /\ \A i \in DOMAIN items : items[i] \in rows
        /\ \A i, j \in DOMAIN items : i # j => items[i] # items[j]
        /\ Len(items) = IF curatedFeed.limit < Cardinality(rows)
                        THEN curatedFeed.limit ELSE Cardinality(rows)
        /\ \A i, j \in DOMAIN items : i < j => ~Precedes(items[j], items[i])
        /\ \A r \in rows : (\A i \in DOMAIN items : items[i] # r)
                              => \A i \in DOMAIN items : ~Precedes(r, items[i])

C22_RemoveDeactivatesFeedItem ==
  [][Len(removeCalls') > Len(removeCalls)
       => LET c == removeCalls'[Len(removeCalls')]
              rows == {r \in user_feed_items' :
                         /\ r.user_id = currentUserId[c.session]
                         /\ r.product_id = c.productId}
          IN  /\ rows # {}
              /\ \A r \in rows : ~r.is_active]_vars

C23_NoRequestWhenAlreadyFollowing ==
  [][\A k \in 1..MaxSocialCalls :
        ( /\ AtSocial(k, "send", "insert")
          /\ SocialStep(k)
          /\ socialCalls[k].following
          /\ <<currentUserId[socialCalls[k].session], socialCalls[k].user>> \in friendships )
        => friend_requests' = friend_requests
    ]_vars

C29_PendingRequestIsListed ==
  [][\A s \in Sessions :
        (~storeFaults /\ followRequests'[s].loads > followRequests[s].loads)
        => \A r \in friend_requests :
              (r.recipient_id = currentUserId[s] /\ r.status = "pending")
              => \E q \in followRequests'[s].requests : q.requester_id = r.requester_id
    ]_vars

\* ------------------------------------------------------------------------
\* Properties of the conversion of raw records
\* ------------------------------------------------------------------------
WithId(items) == SelectSeq(items, LAMBDA item : item.id # NULL)

C26_SnapshotHasAnImage ==
  \A r \in user_feed_items :
     \E i \in DOMAIN r.product_data.images : r.product_data.images[i].url # NULL

\* ------------------------------------------------------------------------
\* Properties of the policies
\* ------------------------------------------------------------------------
\* C28: on every table, a row is inserted, updated or deleted only by the
\* identity that owns it: every row a write creates, changes or removes has
\* the writer as its owner.
C28_OnlyOwnerWrites ==
  [][\A r \in (rls.rows \ rls'.rows) \cup (rls'.rows \ rls.rows) : r.owner = rls'.auth]_vars

\* ------------------------------------------------------------------------
\* Properties of the displayed counts
\* ------------------------------------------------------------------------
\* C30: the like_count and the dislike_count displayed for a shared item are
\* never negative, whatever the load, the optimistic updates, the write
\* failures and the re-reads have done.
C30_DisplayedCountsNotNegative ==
  \A s \in Sessions : \A i \in sharedItems[s] :
     i.like_count >= 0 /\ i.dislike_count >= 0

====
